---- MODULE Spec2Model ----
(***************************************************************************)
(* A model of examples/bulk_crawl_example.py: the command-line client that *)
(* imports domains from a CSV file in batches, starts a bulk crawl, polls  *)
(* the statistics endpoints to render a dashboard, and exports the result. *)
(* The remote service is a black box: every HTTP response is chosen        *)
(* nondeterministically from a small set.                                  *)
(***************************************************************************)
EXTENDS Integers, Sequences, FiniteSets, TLC

(***************************************************************************)
(* Python float arithmetic (IEEE-754 binary64, round to nearest, ties to   *)
(* even), as far as the progress bar uses it.  A double is a record        *)
(* [h, m, l, e]: its 53-bit significand is h * Limb^2 + m * Limb + l, with *)
(* 2^52 <= significand < 2^53 (so 2^16 <= h < 2^17), and its value is      *)
(* significand * 2^e.  Zero has h = m = l = 0.  The limbs keep every       *)
(* intermediate number below 2^31.                                         *)
(***************************************************************************)
MantBits == 53

RECURSIVE Pow2(_)
Pow2(n) == IF n = 0 THEN 1 ELSE 2 * Pow2(n - 1)

Limb == Pow2(18)

\* The number of binary digits of a natural number (0 has none).
RECURSIVE BitLen(_)
BitLen(k) == IF k = 0 THEN 0 ELSE 1 + BitLen(k \div 2)

\* The least j with c * 2^j >= t, for c > 0.
RECURSIVE ShiftUp(_, _)
ShiftUp(c, t) == IF c >= t THEN 0 ELSE 1 + ShiftUp(2 * c, t)

FloatZero == [h |-> 0, m |-> 0, l |-> 0, e |-> 0]

\* The significand plus one unit in the last place, renormalised at 2^53.
NextUp(x) ==
    IF x.l + 1 < Limb THEN [x EXCEPT !.l = x.l + 1]
    ELSE IF x.m + 1 < Limb THEN [x EXCEPT !.l = 0, !.m = x.m + 1]
    ELSE IF x.h + 1 < Pow2(MantBits - 36)
         THEN [x EXCEPT !.l = 0, !.m = 0, !.h = x.h + 1]
         ELSE [h |-> Pow2(MantBits - 37), m |-> 0, l |-> 0, e |-> x.e + 1]

\* Round to nearest, ties to even: x is the truncated result, and the part
\* cut off is rem/unit of a unit in the last place (0 <= rem < unit).
RoundNearestEven(x, rem, unit) ==
    IF 2 * rem > unit \/ (2 * rem = unit /\ x.l % 2 = 1) THEN NextUp(x) ELSE x

\* completed / total_domains: int / int true division, correctly rounded
\* (0 <= c, 0 < t < 2^12, c / t < 2^17).
TrueDiv(c, t) ==
    IF c = 0 THEN FloatZero
    ELSE LET j   == ShiftUp(c, t)
             \* c * 2^s / t lies in [2^52, 2^53)
             s   == IF c >= t THEN MantBits - BitLen(c \div t)
                              ELSE MantBits - 1 + j
             a   == IF s >= 54 THEN 3 ELSE 2
             x0  == c * Pow2(s - 18 * a)
             top == x0 \div t
             r0  == x0 % t
             d1  == (r0 * Limb) \div t
             r1  == (r0 * Limb) % t
             d2  == (r1 * Limb) \div t
             r2  == (r1 * Limb) % t
             d3  == (r2 * Limb) \div t
             r3  == (r2 * Limb) % t
         IN  IF a = 2
             THEN RoundNearestEven([h |-> top, m |-> d1, l |-> d2, e |-> 0 - s],
                                   r2, t)
             ELSE RoundNearestEven([h |-> d1, m |-> d2, l |-> d3, e |-> 0 - s],
                                   r3, t)

\* float * int for a small positive int (n < 2^7), which converts exactly:
\* the exact product is rounded once.
FloatMulInt(x, n) ==
    IF x.h = 0 \/ n = 0 THEN FloatZero
    ELSE LET p0  == x.l * n
             p1  == x.m * n + (p0 \div Limb)
             top == x.h * n + (p1 \div Limb)
             q1  == p1 % Limb
             q0  == p0 % Limb
             \* the product has d bits more than a significand holds
             d   == BitLen(top) - (MantBits - 36)
             u   == Pow2(d)
         IN  RoundNearestEven(
                 [h |-> top \div u,
                  m |-> ((top % u) * Limb + q1) \div u,
                  l |-> ((q1 % u) * Limb + q0) \div u,
                  e |-> x.e + d],
                 q0 % u, u)

\* The integer part of a non-negative double below 2^31.
FloatFloor(x) ==
    IF x.h = 0 THEN 0
    ELSE LET k == 0 - x.e
         IN  IF k >= MantBits THEN 0
             ELSE IF k >= 36 THEN x.h \div Pow2(k - 36)
             ELSE IF k >= 18 THEN x.h * Pow2(36 - k) + (x.m \div Pow2(k - 18))
             ELSE (x.h * Limb + x.m) * Pow2(18 - k) + (x.l \div Pow2(k))

\* int(x // n) for a non-negative double x and a positive int n: fmod and
\* the subtraction in float floor division are exact here, so the result is
\* the floor of the exact quotient.
FloatFloorDivInt(x, n) == FloatFloor(x) \div n


(***************************************************************************)
(* Bounds of the model.                                                    *)
(***************************************************************************)
\* CSV files of 0..MaxRows rows are imported (three batches at the most).
MaxRows == 201
\* The monitor loop is followed for MaxPolls polls.
MaxPolls == 2
\* The progress bar is computed for every total in 1..MaxTotal and every
\* completed in 0..total.
MaxTotal == 52

(***************************************************************************)
(* The state.                                                              *)
(***************************************************************************)
VARIABLES
    csv_file,        \* the rows of the CSV file read by DictReader
    args,            \* the parsed command line: no_monitor, monitor_interval
    pc,              \* where the run is
    domains,         \* import_domains_from_csv: the records built
    i,               \* import_domains_from_csv: the batch loop's index
    imported_count,  \* import_domains_from_csv: the records imported
    import_result,   \* what import_domains_from_csv returned
    batch_id,        \* what start_bulk_crawl returned
    calls,           \* every HTTP request issued, with its response
    svc,             \* the service's counters at the last poll
    fetched,         \* the responses to the last poll's two GETs
    stats,           \* what get_stats returned at the last poll
    last_completed,  \* monitor_progress: the previous poll's completed count
    slept,           \* monitor_progress: the seconds slept so far
    polls,           \* the polls made
    bar,             \* the progress bar last printed
    monitor_end,     \* how the monitor loop ended
    interrupted,     \* where Ctrl+C hit the monitor loop
    printed,         \* the messages printed that tell the outcome
    file,            \* the export's output file
    exc,             \* the exception that left main unhandled
    exit_code        \* what main returned

vars == <<csv_file, args, pc, domains, i, imported_count, import_result,
          batch_id, calls, svc, fetched, stats, last_completed, slept, polls,
          bar, monitor_end, interrupted, printed, file, exc, exit_code>>

importVars  == <<domains, i, imported_count, import_result>>
monitorVars == <<svc, fetched, stats, last_completed, slept, polls, bar, monitor_end,
                 interrupted>>

Min(a, b) == IF a <= b THEN a ELSE b

(***************************************************************************)
(* The CSV file.  A string cell is the sequence of its characters; the     *)
(* max_pages cells hold decimal digits.  A row is the dict DictReader      *)
(* yields: it has the key max_pages only when the header names the column. *)
(* Domains and e-mail addresses are told apart by the row's number.        *)
(***************************************************************************)
\* The decimal digits of a natural number, as str() writes them.
RECURSIVE Digits(_)
Digits(n) == IF n < 10 THEN <<n>> ELSE Append(Digits(n \div 10), n % 10)

\* Row k of a file: has_col says whether the header names max_pages, and
\* empty_at is the row whose max_pages cell is empty (0: no such row).
CsvRow(k, has_col, empty_at) ==
    IF has_col
    THEN [domain |-> k, webmaster_email |-> k,
          max_pages |-> IF k = empty_at THEN << >> ELSE Digits((k % 12) + 1)]
    ELSE [domain |-> k, webmaster_email |-> k]

CsvFile(n, has_col, empty_at) ==
    [k \in 1..n |-> CsvRow(k, has_col, empty_at)]

\* int() of a string of decimal digits: the empty string is a ValueError.
RECURSIVE DigitsValue(_)
DigitsValue(sq) ==
    IF sq = << >> THEN 0
    ELSE 10 * DigitsValue(SubSeq(sq, 1, Len(sq) - 1)) + sq[Len(sq)]

IntOfStr(sq) ==
    IF sq = << >> THEN [ok |-> FALSE, val |-> 0]
    ELSE [ok |-> TRUE, val |-> DigitsValue(sq)]

\* int(row.get('max_pages', 5)): the default is used only when the key is
\* missing, and int(5) is 5.
MaxPagesOf(row) ==
    IF "max_pages" \in DOMAIN row THEN IntOfStr(row.max_pages)
    ELSE [ok |-> TRUE, val |-> 5]

DomainRecord(row) ==
    [domain |-> row.domain, webmasterEmail |-> row.webmaster_email,
     maxPages |-> MaxPagesOf(row).val]

\* The rows before the first one whose max_pages makes int() raise.
ParsedPrefix(rows) ==
    LET bad == {k \in 1..Len(rows) : ~MaxPagesOf(rows[k]).ok}
    IN  IF bad = {} THEN Len(rows)
        ELSE (CHOOSE k \in bad : \A k2 \in bad : k <= k2) - 1

(***************************************************************************)
(* HTTP.  A response is a record [kind, status, success, batchId, body]:   *)
(* kind "raise" is a request that raised (no connection), "http" one that  *)
(* returned.  success is the JSON body's flag: "true", "false" or "absent".*)
(***************************************************************************)
NoBody == << >>

Response(kind, status, success, bid, body) ==
    [kind |-> kind, status |-> status, success |-> success, batchId |-> bid,
     body |-> body]

Raised == Response("raise", 0, "absent", "None", NoBody)

Call(endpoint, method, payload, resp) ==
    [endpoint |-> endpoint, method |-> method, payload |-> payload,
     resp |-> resp]

\* The responses to POST domains/bulk.
ImportResponses ==
    {Response("http", 200, sc, "None", NoBody) : sc \in {"true", "false", "absent"}}
    \cup {Response("http", st, "true", "None", NoBody) : st \in {201, 500}}
    \cup {Raised}

(***************************************************************************)
(* import_domains_from_csv                                                 *)
(***************************************************************************)
batch_size == 100

\* Lines 31-38: every row becomes a record; int() raising leaves the
\* function, and main, with a ValueError before any request is made.
ReadCsv ==
    /\ pc = "read_csv"
    /\ LET n == ParsedPrefix(csv_file)
       IN  /\ domains' = [k \in 1..n |-> DomainRecord(csv_file[k])]
           /\ IF n = Len(csv_file)
              THEN /\ pc' = "import_loop"
                   /\ exc' = exc
              ELSE /\ pc' = "raised"
                   /\ exc' = "ValueError"
    /\ i' = 0
    /\ imported_count' = 0
    /\ UNCHANGED <<csv_file, args, import_result, batch_id, calls,
                   monitorVars, printed, file, exit_code>>

\* A batch taken as imported on its status alone, whatever its success flag.
BatchSucceededIgnoringFlag(resp) == resp.status = 200

\* Lines 55-57: the batch is taken as imported.
BatchSucceeded(resp) == resp.status = 200 /\ resp.success = "true"

\* Lines 46-68: one turn of the batch loop.
ImportBatch ==
    /\ pc = "import_loop"
    /\ i < Len(domains)
    /\ \E resp \in ImportResponses :
         LET batch == SubSeq(domains, i + 1, Min(i + batch_size, Len(domains)))
         IN  /\ calls' = Append(calls, Call("domains/bulk", "POST", batch, resp))
             /\ IF resp.kind = "raise"
                THEN /\ pc' = "raised"
                     /\ exc' = "ConnectionError"
                     /\ UNCHANGED <<i, imported_count, import_result>>
                ELSE IF BatchSucceeded(resp)
                THEN /\ imported_count' = imported_count + Len(batch)
                     /\ i' = i + batch_size
                     /\ UNCHANGED <<pc, exc, import_result>>
                ELSE /\ import_result' = "False"
                     /\ pc' = "import_returned"
                     /\ UNCHANGED <<i, imported_count, exc>>
    /\ UNCHANGED <<csv_file, args, domains, batch_id, monitorVars, printed,
                   file, exit_code>>

\* Lines 46, 70-71: the loop is over.
ImportReturn ==
    /\ pc = "import_loop"
    /\ i >= Len(domains)
    /\ import_result' = "True"
    /\ pc' = "import_returned"
    /\ UNCHANGED <<csv_file, args, domains, i, imported_count, batch_id,
                   calls, monitorVars, printed, file, exc, exit_code>>

(***************************************************************************)
(* start_bulk_crawl, and main up to the monitor                            *)
(***************************************************************************)
\* A main that goes on whatever the import returned.
ImportFailedNeverChecked(result) == FALSE

\* Line 260, "if not crawler.import_domains_from_csv(...)".
ImportFailed(result) == result = "False"

\* Lines 260-262 of main: a failed import ends the run with exit code 1.
MainAfterImport ==
    /\ pc = "import_returned"
    /\ IF ImportFailed(import_result)
       THEN /\ printed' = printed \cup {"failed_import"}
            /\ exit_code' = 1
            /\ pc' = "exit"
       ELSE /\ pc' = "start_crawl"
            /\ UNCHANGED <<printed, exit_code>>
    /\ UNCHANGED <<csv_file, args, importVars, batch_id, calls, monitorVars,
                   file, exc>>

\* Lines 77-88: the request body of the crawl start.
CrawlConfig(max_concurrent) ==
    [maxConcurrent |-> max_concurrent, emailNotifications |-> TRUE,
     crawlConfig |-> [maxPages |-> 5, maxDepth |-> 3, politenessDelay |-> 1000,
                      respectRobotsTxt |-> TRUE, restrictToSeedDomain |-> TRUE,
                      requestTimeout |-> 30000]]

\* The responses to POST domains/crawl/bulk.  batchId is data.batchId: a
\* string, or "None" when the payload carries none.
StartResponses ==
    {Response("http", 200, "true", b, NoBody) : b \in {"batch-1", "", "None"}}
    \cup {Response("http", 200, sc, "batch-1", NoBody) : sc \in {"false", "absent"}}
    \cup {Response("http", st, "true", "batch-1", NoBody) : st \in {201, 500}}
    \cup {Raised}

\* Lines 96-98: the service said the crawl has started.
StartSucceeded(resp) == resp.status = 200 /\ resp.success = "true"

\* Lines 96-107: what start_bulk_crawl returns.
StartReturn(resp) == IF StartSucceeded(resp) THEN resp.batchId ELSE "None"

\* Line 266, "if not batch_id": None and the empty string are false.
Truthy(b) == b \notin {"None", ""}

\* Lines 265-272 and 276-281 of main, with start_bulk_crawl (lines 73-107).
StartBulkCrawl ==
    /\ pc = "start_crawl"
    /\ \E resp \in StartResponses :
         /\ calls' = Append(calls, Call("domains/crawl/bulk", "POST",
                                        CrawlConfig(args.max_concurrent), resp))
         /\ IF resp.kind = "raise"
            THEN /\ pc' = "raised"
                 /\ exc' = "ConnectionError"
                 /\ UNCHANGED <<batch_id, printed, exit_code>>
            ELSE /\ batch_id' = StartReturn(resp)
                 /\ exc' = exc
                 /\ IF ~Truthy(StartReturn(resp))
                    THEN /\ printed' = printed
                                \cup (IF StartSucceeded(resp)
                                      THEN {"crawl_started"} ELSE {})
                                \cup {"failed_start"}
                         /\ exit_code' = 1
                         /\ pc' = "exit"
                    ELSE IF args.no_monitor
                    THEN /\ printed' = printed \cup {"crawl_started",
                                                     "process_completed"}
                         /\ exit_code' = 0
                         /\ pc' = "exit"
                    ELSE /\ printed' = printed \cup {"crawl_started"}
                         /\ pc' = "mon_fetch"
                         /\ exit_code' = exit_code
    /\ UNCHANGED <<csv_file, args, importVars, monitorVars, file>>

(***************************************************************************)
(* get_stats and monitor_progress.  A statistics mapping is a record       *)
(* [kind, map]: kind "dict" with the counters in map, or kind "None" for a *)
(* JSON null.                                                              *)
(***************************************************************************)
EmptyDict == [kind |-> "dict", map |-> << >>]
NoneValue == [kind |-> "None", map |-> << >>]
Dict(f)   == [kind |-> "dict", map |-> f]

\* d.get(key, 0)
Get(d, key) == IF key \in DOMAIN d.map THEN d.map[key] ELSE 0

\* The counters the service may hold at a poll: o is <<completed, total,
\* failed and e-mails sent, queue pending, queue failed>>.
Snapshots ==
    {[domains |-> [totalDomains |-> o[2], completedDomains |-> o[1],
                   failedDomains |-> o[3], crawlingDomains |-> cr,
                   pendingDomains |-> pe, emailsSent |-> o[3]],
      queue   |-> [pending |-> o[4], processing |-> qp,
                   completed |-> o[1], failed |-> o[5]]] :
        o  \in {<<0, 0, 0, 0, 0>>, <<50, 200, 3, 4, 1>>, <<29, 50, 0, 0, 0>>},
        pe \in {0, 2}, cr \in {0, 1}, qp \in {0, 1}}

\* How a statistics GET may end: with the counters, with "data": null, with
\* an HTTP error, or with an exception of requests.
StatsOk(data)  == Response("http", 200, "true", "None", Dict(data))
StatsNull      == Response("http", 200, "true", "None", NoneValue)
StatsHttpError == Response("http", 500, "absent", "None", EmptyDict)

DomainStatsResponses(s) == {StatsOk(s.domains), StatsNull, StatsHttpError, Raised}
QueueStatsResponses(s)  == {StatsOk(s.queue), StatsHttpError, Raised}

\* Lines 116-117: the "data" of a 200 response, else an empty mapping.
StatsData(resp) == IF resp.status = 200 THEN resp.body ELSE EmptyDict

\* Lines 111-125: rq is "none" when the first GET raised, for then the
\* second one is not made.
GetStats(rd, rq) ==
    IF rd.kind = "raise" \/ rq.kind = "raise"
    THEN [domains |-> EmptyDict, queue |-> EmptyDict]
    ELSE [domains |-> StatsData(rd), queue |-> StatsData(rq)]

NotIssued == Response("none", 0, "absent", "None", NoBody)

\* In the log of calls, a statistics GET's response: it is kept in fetched.
InFetched == Response("fetched", 0, "absent", "None", NoBody)

MonitorPcs == {"mon_fetch", "mon_render", "mon_sleep", "mon_err_sleep"}

\* Line 138: one call of get_stats.
MonitorFetch ==
    /\ pc = "mon_fetch"
    /\ polls < MaxPolls
    /\ \E s \in Snapshots :
         \E rd \in DomainStatsResponses(s) :
           \E rq \in (IF rd.kind = "raise" THEN {NotIssued}
                      ELSE QueueStatsResponses(s)) :
             /\ svc' = s
             /\ fetched' = [domains |-> rd, queue |-> rq]
             /\ calls' = calls
                    \o <<Call("domains/stats", "GET", NoBody, InFetched)>>
                    \o (IF rq.kind = "none" THEN << >>
                        ELSE <<Call("domains/queue/stats", "GET", NoBody,
                                    InFetched)>>)
             /\ stats' = GetStats(rd, rq)
    /\ polls' = polls + 1
    /\ pc' = "mon_render"
    /\ UNCHANGED <<csv_file, args, importVars, batch_id, last_completed, slept,
                   bar, monitor_end, interrupted, printed, file, exc, exit_code>>

bar_length == 50

\* '#' * n: a negative count gives the empty string.
StrRepeat(ch, n) == [k \in 1..n |-> ch]

\* Lines 186-188: int(bar_length * progress_percent // 100), in floats.
FilledLength(completed, total) ==
    FloatFloorDivInt(
        FloatMulInt(FloatMulInt(TrueDiv(completed, total), 100), bar_length),
        100)

\* Lines 186-189: the bar printed between the two '|'.
ProgressBar(completed, total) ==
    LET filled_length == FilledLength(completed, total)
    IN  StrRepeat("#", filled_length) \o StrRepeat("-", bar_length - filled_length)

NoBar == << >>

\* Line 196: the poll shows the crawl complete.
CrawlCompleted(pending, crawling, queue_processing) ==
    pending = 0 /\ crawling = 0 /\ queue_processing = 0

\* Line 158: elapsed_time > check_interval.  The elapsed time is the time
\* slept plus the positive time the requests took (taken to be under a
\* second), so for whole seconds it exceeds the interval iff slept >= it.
ElapsedExceeds(interval) == slept >= interval

\* Lines 139-159: what makes the body of the loop raise before it prints:
\* .get on a None (AttributeError), or the rate's division by a zero
\* interval (ZeroDivisionError).
RenderRaises ==
    \/ stats.domains.kind = "None"
    \/ stats.queue.kind = "None"
    \/ (ElapsedExceeds(args.monitor_interval) /\ args.monitor_interval = 0)

\* Lines 139-205 and 211-212: the dashboard of one poll.
MonitorRender ==
    /\ pc = "mon_render"
    /\ IF RenderRaises
       THEN /\ printed' = printed \cup {"monitor_error"}
            /\ pc' = "mon_err_sleep"
            /\ UNCHANGED <<bar, monitor_end, last_completed>>
       ELSE LET total_domains    == Get(stats.domains, "totalDomains")
                completed        == Get(stats.domains, "completedDomains")
                crawling         == Get(stats.domains, "crawlingDomains")
                pending          == Get(stats.domains, "pendingDomains")
                queue_processing == Get(stats.queue, "processing")
            IN  /\ bar' = IF total_domains > 0
                          THEN ProgressBar(completed, total_domains)
                          ELSE NoBar
                /\ IF CrawlCompleted(pending, crawling, queue_processing)
                   THEN /\ printed' = printed \cup {"crawling_completed"}
                        /\ monitor_end' = "completed"
                        /\ pc' = "export"
                        /\ UNCHANGED last_completed
                   ELSE /\ last_completed' = completed
                        /\ pc' = "mon_sleep"
                        /\ UNCHANGED <<printed, monitor_end>>
    /\ UNCHANGED <<csv_file, args, importVars, batch_id, calls, svc, fetched, stats,
                   slept, polls, interrupted, file, exc, exit_code>>

\* time.sleep(secs) raises ValueError for a negative length.
SleepRaises(secs) == secs < 0

\* Line 206, inside the try: a ValueError of sleep is caught at line 211.
MonitorSleep ==
    /\ pc = "mon_sleep"
    /\ IF SleepRaises(args.monitor_interval)
       THEN /\ printed' = printed \cup {"monitor_error"}
            /\ pc' = "mon_err_sleep"
            /\ UNCHANGED slept
       ELSE /\ slept' = slept + args.monitor_interval
            /\ pc' = "mon_fetch"
            /\ UNCHANGED printed
    /\ UNCHANGED <<csv_file, args, importVars, batch_id, calls, svc, fetched, stats,
                   last_completed, polls, bar, monitor_end, interrupted, file,
                   exc, exit_code>>

\* Line 213, inside the except clause: what is raised here leaves
\* monitor_progress, and main.
MonitorErrorSleep ==
    /\ pc = "mon_err_sleep"
    /\ IF SleepRaises(args.monitor_interval)
       THEN /\ pc' = "raised"
            /\ exc' = "ValueError"
            /\ UNCHANGED slept
       ELSE /\ slept' = slept + args.monitor_interval
            /\ pc' = "mon_fetch"
            /\ UNCHANGED exc
    /\ UNCHANGED <<csv_file, args, importVars, batch_id, calls, svc, fetched, stats,
                   last_completed, polls, bar, monitor_end, interrupted,
                   printed, file, exit_code>>

\* Lines 137 and 208-210: the try block covers lines 138-206, so Ctrl+C is
\* caught there (get_stats catches Exception, which KeyboardInterrupt is
\* not); in the except clause of lines 211-213 nothing catches it.
InterruptCaught(at) == at \in {"mon_fetch", "mon_render", "mon_sleep"}

KeyboardInterrupt ==
    /\ pc \in MonitorPcs
    /\ interrupted' = pc
    /\ IF InterruptCaught(pc)
       THEN /\ printed' = printed \cup {"stopped_by_user"}
            /\ monitor_end' = "stopped"
            /\ pc' = "export"
            /\ UNCHANGED exc
       ELSE /\ pc' = "raised"
            /\ exc' = "KeyboardInterrupt"
            /\ UNCHANGED <<printed, monitor_end>>
    /\ UNCHANGED <<csv_file, args, importVars, batch_id, calls, svc, fetched, stats,
                   last_completed, slept, polls, bar, file, exit_code>>

(***************************************************************************)
(* export_results.  A response body is a sequence of bytes, response.text  *)
(* a sequence of code points, and the file holds the text written to it.   *)
(***************************************************************************)
\* response.text decodes the body with errors="replace": a byte below 128
\* is its own code point, and the byte 255, which no UTF-8 text holds,
\* becomes U+FFFD.
ResponseText(body) ==
    [k \in 1..Len(body) |-> IF body[k] < 128 THEN body[k] ELSE 65533]

ExportBodies == {<<65, 44, 66, 10>>, <<65, 255, 10>>}

ExportResponses ==
    {Response("http", st, "absent", "None", b) :
        st \in {200, 201, 404}, b \in ExportBodies}
    \cup {Raised}

NoFile == [exists |-> FALSE, text |-> << >>]

\* An export written on every 2xx status.
ExportWritesOnAny2xx(status) == status \in 200..299

\* Line 237: the export is written to the file.
ExportWrites(status) == status = 200

\* Line 275 of main with export_results (lines 231-242), and lines 280-281.
ExportResults ==
    /\ pc = "export"
    /\ \E resp \in ExportResponses :
         /\ calls' = Append(calls, Call("domains/export", "GET", NoBody, resp))
         /\ IF resp.kind = "raise"
            THEN /\ pc' = "raised"
                 /\ exc' = "ConnectionError"
                 /\ UNCHANGED <<file, printed, exit_code>>
            ELSE /\ IF ExportWrites(resp.status)
                    THEN /\ file' = [exists |-> TRUE,
                                     text |-> ResponseText(resp.body)]
                         /\ printed' = printed \cup {"exported",
                                                     "process_completed"}
                    ELSE /\ file' = file
                         /\ printed' = printed \cup {"export_http_error",
                                                     "process_completed"}
                 /\ exit_code' = 0
                 /\ pc' = "exit"
                 /\ exc' = exc
    /\ UNCHANGED <<csv_file, args, importVars, batch_id, monitorVars>>

(***************************************************************************)
(* The specifications.                                                     *)
(***************************************************************************)
EmptyStats == [domains |-> EmptyDict, queue |-> EmptyDict]

QuietService ==
    [domains |-> [totalDomains |-> 0, completedDomains |-> 0,
                  failedDomains |-> 0, crawlingDomains |-> 0,
                  pendingDomains |-> 0, emailsSent |-> 0],
     queue   |-> [pending |-> 0, processing |-> 0, completed |-> 0,
                  failed |-> 0]]

\* Lines 245-252: the command line.
Args(no_monitor, interval) ==
    [max_concurrent |-> 10, no_monitor |-> no_monitor,
     monitor_interval |-> interval]

InitWith(files, argset, at, statset) ==
    /\ csv_file \in files
    /\ args \in argset
    /\ pc = at
    /\ domains = << >>
    /\ i = 0
    /\ imported_count = 0
    /\ import_result = "None"
    /\ batch_id = "None"
    /\ calls = << >>
    /\ svc = QuietService
    /\ fetched = [domains |-> NotIssued, queue |-> NotIssued]
    /\ stats \in statset
    /\ last_completed = 0
    /\ slept = 0
    /\ polls = 0
    /\ bar = NoBar
    /\ monitor_end = "none"
    /\ interrupted = "no"
    /\ printed = {}
    /\ file = NoFile
    /\ exc = "none"
    /\ exit_code = -1

\* Files with and without the max_pages column, with and without a row
\* whose max_pages cell is empty.
CsvFiles(sizes) ==
    {CsvFile(n, TRUE, e) : n \in sizes, e \in {0, 1}}
    \cup {CsvFile(n, FALSE, 0) : n \in sizes}

\* A run of main.
Init ==
    InitWith(CsvFiles({0, batch_size + 1}),
             {Args(nm, iv) : nm \in BOOLEAN, iv \in {-1, 0, 2}},
             "read_csv", {EmptyStats})

Next ==
    \/ ReadCsv
    \/ ImportBatch
    \/ ImportReturn
    \/ MainAfterImport
    \/ StartBulkCrawl
    \/ MonitorFetch
    \/ MonitorRender
    \/ MonitorSleep
    \/ MonitorErrorSleep
    \/ KeyboardInterrupt
    \/ ExportResults

Spec == Init /\ [][Next]_vars

\* import_domains_from_csv alone, on files of every size up to MaxRows.
InitImport ==
    InitWith(UNION {{CsvFile(n, TRUE, e) : e \in {0, 1, n}} : n \in 0..MaxRows}
             \cup {CsvFile(n, FALSE, 0) : n \in 0..MaxRows},
             {Args(FALSE, 30)}, "read_csv", {EmptyStats})

NextImport == ReadCsv \/ ImportBatch \/ ImportReturn

SpecImport == InitImport /\ [][NextImport]_vars

\* The dashboard of one poll alone (lines 139-205), on the statistics of
\* every total in 1..MaxTotal with every completed count up to it.
BarStatsOf(t, c, pe) ==
    [domains |-> Dict([totalDomains |-> t, completedDomains |-> c,
                       pendingDomains |-> pe]),
     queue   |-> Dict([processing |-> 0])]

BarStats ==
    UNION {{BarStatsOf(t, c, pe) : c \in 0..t, pe \in {0, 1}} : t \in 1..MaxTotal}

InitBar ==
    InitWith({CsvFile(0, FALSE, 0)}, {Args(FALSE, 30)}, "mon_render", BarStats)

NextBar == MonitorRender

SpecBar == InitBar /\ [][NextBar]_vars

(***************************************************************************)
(* The claims.                                                             *)
(***************************************************************************)
CallsTo(endpoint) == SelectSeq(calls, LAMBDA c : c.endpoint = endpoint)

ImportCalls == CallsTo("domains/bulk")
CrawlCalls  == CallsTo("domains/crawl/bulk")
ExportCalls == CallsTo("domains/export")
StatsCalls  ==
    SelectSeq(calls, LAMBDA c : c.endpoint \in {"domains/stats",
                                                "domains/queue/stats"})

\* A response that reports success: status 200 with the success flag set.
ReportsSuccess(resp) ==
    resp.kind = "http" /\ resp.status = 200 /\ resp.success = "true"

\* A non-success indication: a status outside 2xx, or a success flag that
\* is explicitly false.
NonSuccess(resp) ==
    resp.kind = "http" /\ (resp.status \notin 200..299 \/ resp.success = "false")

CeilDiv(n, d) == (n + d - 1) \div d

RECURSIVE Flatten(_)
Flatten(seqs) ==
    IF seqs = << >> THEN << >> ELSE Head(seqs) \o Flatten(Tail(seqs))

Payloads(cs) == [k \in 1..Len(cs) |-> cs[k].payload]

\* The record the specification gives a row: maxPages is 5 when the column
\* is absent or the cell empty, else the cell's integer.
SpecRecord(row) ==
    [domain |-> row.domain, webmasterEmail |-> row.webmaster_email,
     maxPages |-> IF "max_pages" \notin DOMAIN row THEN 5
                  ELSE IF row.max_pages = << >> THEN 5
                  ELSE DigitsValue(row.max_pages)]

ImportOver == pc \notin {"read_csv", "import_loop"}

\* C1: once the import is over and every import call it made succeeded,
\* it has made exactly ceil(N/100) calls for the N rows of the file, each
\* with 1 to 100 records, and the batches in the order sent make up the
\* file's records in file order.
C1_BatchesCoverFile ==
    (ImportOver /\ \A k \in 1..Len(ImportCalls) : ReportsSuccess(ImportCalls[k].resp))
    => /\ Len(ImportCalls) = CeilDiv(Len(csv_file), 100)
       /\ \A k \in 1..Len(ImportCalls) :
            Len(ImportCalls[k].payload) \in 1..100
       /\ Flatten(Payloads(ImportCalls))
            = [k \in 1..Len(csv_file) |-> SpecRecord(csv_file[k])]

\* C2: a batch call answered with a non-success indication is the last
\* batch call and makes the import return False; and the import returns
\* True only when every batch was sent and none was answered with a
\* non-success indication.
C2_StopsAtFirstFailure ==
    /\ \A k \in 1..Len(ImportCalls) :
         NonSuccess(ImportCalls[k].resp)
         => (k = Len(ImportCalls) /\ import_result = "False")
    /\ import_result = "True"
       => /\ Len(ImportCalls) = CeilDiv(Len(domains), 100)
          /\ \A k \in 1..Len(ImportCalls) :
               /\ ImportCalls[k].resp.kind = "http"
               /\ ~NonSuccess(ImportCalls[k].resp)

\* C2's case: the second of three batches was refused, and no third sent.
C2_Witness ==
    /\ Len(domains) > 200
    /\ Len(ImportCalls) = 2
    /\ NonSuccess(ImportCalls[2].resp)
    /\ import_result = "False"

\* The last poll brought a snapshot: both GETs returned 200 with counters.
SnapshotPolled ==
    /\ fetched.domains.kind = "http" /\ fetched.domains.status = 200
    /\ fetched.queue.kind = "http" /\ fetched.queue.status = 200
    /\ fetched.domains.body.kind = "dict"
    /\ fetched.queue.body.kind = "dict"

\* The last poll's snapshot shows no pending and no crawling domain and no
\* job in processing.
SnapshotDone ==
    /\ SnapshotPolled
    /\ Get(stats.domains, "pendingDomains") = 0
    /\ Get(stats.domains, "crawlingDomains") = 0
    /\ Get(stats.queue, "processing") = 0

\* C3: with no interrupt, the loop ends at a poll exactly when the poll's
\* snapshot has pending = 0, crawling = 0 and queue processing = 0: it is
\* on its way to another poll only after a snapshot that is not so, it
\* ends as completed only on a snapshot that is so, and it does not end in
\* any other way.
C3_EndsExactlyOnZeroSnapshot ==
    (interrupted = "no" /\ SnapshotPolled)
    => /\ pc \in {"mon_sleep", "mon_err_sleep"} => ~SnapshotDone
       /\ monitor_end = "completed" => SnapshotDone
       /\ ~(pc = "raised" /\ monitor_end = "none")

\* A statistics GET that failed: it raised, or its status is not 200.
FetchFailed(r) == r.kind = "raise" \/ (r.kind = "http" /\ r.status # 200)

\* A statistics GET that returned 200 with a mapping of counters.
ReturnedCounters(r) == r.kind = "http" /\ r.status = 200 /\ r.body.kind = "dict"

ServiceBusy ==
    svc.domains.pendingDomains > 0 \/ svc.domains.crawlingDomains > 0

\* C4: after a poll in which a statistics GET failed, the failed call's
\* statistics are empty, the other call's statistics are those it
\* returned, and while the service has pending or crawling domains the
\* loop has not ended as completed.
C4_FailedStatsNeverEndLoop ==
    (/\ polls > 0
     /\ pc # "mon_render"
     /\ FetchFailed(fetched.domains) \/ FetchFailed(fetched.queue))
    => /\ FetchFailed(fetched.domains) => stats.domains = EmptyDict
       /\ FetchFailed(fetched.queue) => stats.queue = EmptyDict
       /\ ReturnedCounters(fetched.domains)
          => stats.domains = fetched.domains.body
       /\ ReturnedCounters(fetched.queue)
          => stats.queue = fetched.queue.body
       /\ (ServiceBusy /\ interrupted = "no") => monitor_end # "completed"

\* C5: an interrupt that hits the monitor loop, wherever it is, ends the
\* loop with the message 'Monitoring stopped by user' and does not leave
\* monitor_progress as an exception.
C5_InterruptEndsCleanly ==
    interrupted # "no"
    => /\ "stopped_by_user" \in printed
       /\ monitor_end = "stopped"
       /\ exc # "KeyboardInterrupt"

Stage(c) ==
    CASE c.endpoint = "domains/bulk" -> 1
      [] c.endpoint = "domains/crawl/bulk" -> 2
      [] c.endpoint \in {"domains/stats", "domains/queue/stats"} -> 3
      [] c.endpoint = "domains/export" -> 4

\* C6: the requests of a run come in the order import, crawl start,
\* statistics, export; the crawl start is requested at most once, only
\* after every batch of the file was imported with success, and exactly
\* once by the time the monitor runs; a statistics GET is made only after
\* a crawl start that succeeded; the export GET only after the monitor
\* loop ended (completed or stopped by the user) without an exception;
\* and with --no-monitor neither is ever made.
C6_StagesInOrder ==
    /\ \A j, k \in 1..Len(calls) : j < k => Stage(calls[j]) <= Stage(calls[k])
    /\ Len(CrawlCalls) <= 1
    /\ Len(CrawlCalls) = 1
       => /\ import_result = "True"
          /\ Len(ImportCalls) = CeilDiv(Len(csv_file), 100)
          /\ \A k \in 1..Len(ImportCalls) : ReportsSuccess(ImportCalls[k].resp)
    /\ (pc \in MonitorPcs \/ pc = "export") => Len(CrawlCalls) = 1
    /\ Len(StatsCalls) > 0
       => (Len(CrawlCalls) = 1 /\ ReportsSuccess(CrawlCalls[1].resp))
    /\ Len(ExportCalls) > 0
       => /\ monitor_end \in {"completed", "stopped"}
          /\ Len(CrawlCalls) = 1 /\ ReportsSuccess(CrawlCalls[1].resp)
          /\ Len(ExportCalls) = 1
    /\ args.no_monitor => (Len(StatsCalls) = 0 /\ Len(ExportCalls) = 0)

\* C6's case: a run through all four stages, with two import batches.
C6_Witness ==
    /\ pc = "exit"
    /\ Len(ImportCalls) = 2
    /\ Len(CrawlCalls) = 1
    /\ Len(StatsCalls) >= 2
    /\ Len(ExportCalls) = 1
    /\ monitor_end = "completed"

\* The crawl start failed: no response to it reports success.
CrawlStartFailed ==
    ~(\E k \in 1..Len(CrawlCalls) : ReportsSuccess(CrawlCalls[k].resp))

\* C7: main returns 1 exactly when the import failed or the crawl start
\* failed; when the import succeeded and the crawl start was answered
\* with success, whatever batch identifier the answer carries, it
\* returns 0.
C7_ExitCode ==
    pc = "exit"
    => /\ exit_code = 1 <=> (import_result = "False" \/ CrawlStartFailed)
       /\ (import_result = "True" /\ ~CrawlStartFailed) => exit_code = 0

Count(sq, ch) == Cardinality({k \in 1..Len(sq) : sq[k] = ch})

\* C9: for a snapshot with totalDomains > 0 the bar printed is 50
\* characters wide, with floor(50 * completed / total) filled characters
\* and '-' for the rest.
C9_BarIsFloorOfFiftieths ==
    LET total     == Get(stats.domains, "totalDomains")
        completed == Get(stats.domains, "completedDomains")
    IN  (pc \in {"mon_sleep", "export"} /\ monitor_end # "stopped"
         /\ stats.domains.kind = "dict" /\ total > 0)
        => /\ Len(bar) = 50
           /\ Count(bar, "#") = (50 * completed) \div total
           /\ Count(bar, "-") = 50 - Count(bar, "#")

\* C10: every row's record has maxPages 5 when the max_pages column is
\* absent or the row's cell empty, and the cell's integer otherwise, and
\* the import goes on to its batch calls and does not fail on such a row.
C10_MaxPagesDefault ==
    pc # "read_csv"
    => /\ ~(pc = "raised" /\ exc = "ValueError" /\ calls = << >>)
       /\ Len(domains) = Len(csv_file)
       /\ \A k \in 1..Len(domains) :
            domains[k].maxPages = SpecRecord(csv_file[k]).maxPages

====
